---------------------------- MODULE Spec2Model ----------------------------
(***************************************************************************)
(* A model of src/main.py: the Nexgen BPO voice-agent backend.             *)
(*                                                                         *)
(* Text the program inspects (language tags, environment names,            *)
(* transcripts, the bytes of submissions.json) is a sequence of            *)
(* one-character strings, so that startswith, split, strip, lower and the  *)
(* JSON writer and reader are computed character by character.  Values the *)
(* program only passes along (voice identifiers, credentials) are plain    *)
(* strings, "" being Python's empty (falsy) string.                        *)
(*                                                                         *)
(* Each worker process runs one asyncio event loop.  A coroutine keeps the *)
(* loop from the moment it is resumed until its next await or its return;  *)
(* a blocking call made inside an async handler keeps the loop as well.    *)
(* Files are shared by all worker processes.                               *)
(***************************************************************************)
EXTENDS Integers, Sequences, FiniteSets, TLC

VARIABLES
    environ,                  \* os.environ at import time: name -> value
    OPENAI_API_KEY,           \* main.py:29
    ELEVENLABS_API_KEY,       \* main.py:31
    ELEVENLABS_VOICE_DEFAULT, \* main.py:32
    VOICE_MAP,                \* main.py:63
    file,                     \* the bytes of submissions.json
    static_files,             \* static/: file name -> "full" | "partial"
    req,                      \* the requests: id -> record
    running,                  \* worker -> the request holding its loop, 0 if free
    submitted,                \* history: entries of the calls that returned ok
    selected                  \* the last direct call of choose_voice_for_language

vars == <<environ, OPENAI_API_KEY, ELEVENLABS_API_KEY, ELEVENLABS_VOICE_DEFAULT,
          VOICE_MAP, file, static_files, req, running, submitted, selected>>

globals == <<environ, OPENAI_API_KEY, ELEVENLABS_API_KEY,
             ELEVENLABS_VOICE_DEFAULT, VOICE_MAP>>

-----------------------------------------------------------------------------
(* Python string operations, on sequences of characters.                   *)

\* s.startswith(p)
startswith(s, p) ==
    /\ Len(p) <= Len(s)
    /\ \A i \in 1..Len(p) : s[i] = p[i]

\* c in s
contains(s, c) == \E i \in 1..Len(s) : s[i] = c

\* index of the first c in s (0 when there is none)
find(s, c) ==
    IF contains(s, c)
    THEN CHOOSE i \in 1..Len(s) : s[i] = c /\ \A j \in 1..(i - 1) : s[j] # c
    ELSE 0

\* s.split(c)[0]
split_first(s, c) ==
    IF contains(s, c) THEN SubSeq(s, 1, find(s, c) - 1) ELSE s

\* s.split(c, 1)[1], for an s that holds c
split_rest(s, c) == SubSeq(s, find(s, c) + 1, Len(s))

\* os.getenv(name, default), of the environment env
getenv(env, name, default) ==
    IF name \in DOMAIN env THEN env[name] ELSE default

-----------------------------------------------------------------------------
(* Names of the environment.                                               *)

VOICE_PREFIX == <<"V", "O", "I", "C", "E", "_">>
ENV_OPENAI_API_KEY ==
    <<"O", "P", "E", "N", "A", "I", "_", "A", "P", "I", "_", "K", "E", "Y">>
ENV_ELEVENLABS_API_KEY ==
    <<"E", "L", "E", "V", "E", "N", "L", "A", "B", "S", "_",
      "A", "P", "I", "_", "K", "E", "Y">>
ENV_ELEVENLABS_VOICE ==
    <<"E", "L", "E", "V", "E", "N", "L", "A", "B", "S", "_",
      "V", "O", "I", "C", "E">>

-----------------------------------------------------------------------------
(* Voice map loader and voice selection.                                   *)

\* _load_voice_map(): every VOICE_<lang> entry with a non-empty value.
_load_voice_map(env) ==
    LET ks == {k \in DOMAIN env : startswith(k, VOICE_PREFIX) /\ env[k] # ""}
        lang(k) == split_rest(k, "_")
    IN  [l \in {lang(k) : k \in ks} |->
            env[CHOOSE k \in ks : lang(k) = l]]

\* A selection that never tries the part before the separator.
choose_voice_no_prefix(lang) ==
    IF lang = <<>> THEN ELEVENLABS_VOICE_DEFAULT
    ELSE IF lang \in DOMAIN VOICE_MAP THEN VOICE_MAP[lang]
    ELSE ELEVENLABS_VOICE_DEFAULT

\* A selection that tries the part before the separator first.
choose_voice_prefix_first(lang) ==
    IF lang = <<>> THEN ELEVENLABS_VOICE_DEFAULT
    ELSE IF contains(lang, "-") /\ split_first(lang, "-") \in DOMAIN VOICE_MAP
         THEN VOICE_MAP[split_first(lang, "-")]
    ELSE IF lang \in DOMAIN VOICE_MAP THEN VOICE_MAP[lang]
    ELSE ELEVENLABS_VOICE_DEFAULT

\* choose_voice_for_language(lang)
choose_voice_for_language(lang) ==
    IF lang = <<>> THEN ELEVENLABS_VOICE_DEFAULT
    ELSE IF lang \in DOMAIN VOICE_MAP THEN VOICE_MAP[lang]
    ELSE IF contains(lang, "-") /\ split_first(lang, "-") \in DOMAIN VOICE_MAP
         THEN VOICE_MAP[split_first(lang, "-")]
    ELSE ELEVENLABS_VOICE_DEFAULT

-----------------------------------------------------------------------------
(* JSON, as json.dump(data, f, indent=2) writes it and json.load reads it. *)
(* A dict is the sequence of its <<key, value>> pairs in insertion order;  *)
(* a value is a string or None.                                            *)

None == [null |-> TRUE, s |-> <<>>]
Str(s) == [null |-> FALSE, s |-> s]

RECURSIVE spaces(_)
spaces(n) == IF n = 0 THEN <<>> ELSE <<" ">> \o spaces(n - 1)

\* The newline and indentation json.dump puts before an item at a depth.
newline_indent(depth) == <<"\n">> \o spaces(2 * depth)

\* The encoder's escapes (ensure_ascii; the model's text is ASCII).
RECURSIVE escape(_)
escape(s) ==
    IF s = <<>> THEN <<>>
    ELSE LET c == Head(s)
         IN  (IF c = "\"" THEN <<"\\", "\"">>
              ELSE IF c = "\\" THEN <<"\\", "\\">>
              ELSE IF c = "\n" THEN <<"\\", "n">>
              ELSE <<c>>) \o escape(Tail(s))

dump_string(s) == <<"\"">> \o escape(s) \o <<"\"">>

dump_value(v) == IF v.null THEN <<"n", "u", "l", "l">> ELSE dump_string(v.s)

dump_pair(p) == dump_string(p[1]) \o <<":", " ">> \o dump_value(p[2])

RECURSIVE dump_pairs(_, _)
dump_pairs(d, depth) ==
    IF Len(d) = 1 THEN dump_pair(d[1])
    ELSE dump_pair(d[1]) \o <<",">> \o newline_indent(depth)
            \o dump_pairs(Tail(d), depth)

dump_dict(d, depth) ==
    IF d = <<>> THEN <<"{", "}">>
    ELSE <<"{">> \o newline_indent(depth + 1) \o dump_pairs(d, depth + 1)
            \o newline_indent(depth) \o <<"}">>

RECURSIVE dump_items(_)
dump_items(data) ==
    IF Len(data) = 1 THEN dump_dict(data[1], 1)
    ELSE dump_dict(data[1], 1) \o <<",">> \o newline_indent(1)
            \o dump_items(Tail(data))

\* json.dump(data, f, indent=2) of a list of dicts.
json_dump(data) ==
    IF data = <<>> THEN <<"[", "]">>
    ELSE <<"[">> \o newline_indent(1) \o dump_items(data)
            \o newline_indent(0) \o <<"]">>

\* The reader.  A result is [ok, val, pos]: pos is the index after the value.
Fail == [ok |-> FALSE, val |-> <<>>, pos |-> 0]
Ok(v, p) == [ok |-> TRUE, val |-> v, pos |-> p]

Whitespace == {" ", "\n", "\t", "\r"}

RECURSIVE skip_ws(_, _)
skip_ws(s, i) ==
    IF i <= Len(s) /\ s[i] \in Whitespace THEN skip_ws(s, i + 1) ELSE i

\* The characters of a string, from the one after its opening quote.
RECURSIVE scan_string(_, _, _)
scan_string(s, i, acc) ==
    IF i > Len(s) THEN Fail
    ELSE IF s[i] = "\"" THEN Ok(acc, i + 1)
    ELSE IF s[i] = "\\" THEN
        IF i + 1 > Len(s) THEN Fail
        ELSE IF s[i + 1] = "\"" THEN scan_string(s, i + 2, Append(acc, "\""))
        ELSE IF s[i + 1] = "\\" THEN scan_string(s, i + 2, Append(acc, "\\"))
        ELSE IF s[i + 1] = "/" THEN scan_string(s, i + 2, Append(acc, "/"))
        ELSE IF s[i + 1] = "n" THEN scan_string(s, i + 2, Append(acc, "\n"))
        ELSE Fail
    ELSE IF s[i] \in {"\n", "\t", "\r"} THEN Fail   \* strict: no raw control
    ELSE scan_string(s, i + 1, Append(acc, s[i]))

parse_string(s, i) ==
    IF i <= Len(s) /\ s[i] = "\"" THEN scan_string(s, i + 1, <<>>) ELSE Fail

\* A string or null (the values the store's records hold).
parse_value(s, i) ==
    IF i <= Len(s) /\ s[i] = "\"" THEN
        LET r == scan_string(s, i + 1, <<>>)
        IN  IF r.ok THEN Ok(Str(r.val), r.pos) ELSE Fail
    ELSE IF i + 3 <= Len(s) /\ SubSeq(s, i, i + 3) = <<"n", "u", "l", "l">>
         THEN Ok(None, i + 4)
    ELSE Fail

\* The pairs of an object, from its first key; acc holds those read so far.
RECURSIVE parse_pairs(_, _, _)
parse_pairs(s, i, acc) ==
    LET k == parse_string(s, i)
        c == skip_ws(s, k.pos)
        v == parse_value(s, skip_ws(s, c + 1))
        e == skip_ws(s, v.pos)
    IN  IF ~k.ok THEN Fail
        ELSE IF c > Len(s) \/ s[c] # ":" THEN Fail
        ELSE IF ~v.ok THEN Fail
        ELSE IF e > Len(s) THEN Fail
        ELSE IF s[e] = "}" THEN Ok(Append(acc, <<k.val, v.val>>), e + 1)
        ELSE IF s[e] = ","
             THEN parse_pairs(s, skip_ws(s, e + 1), Append(acc, <<k.val, v.val>>))
        ELSE Fail

parse_object(s, i) ==
    IF i > Len(s) \/ s[i] # "{" THEN Fail
    ELSE LET j == skip_ws(s, i + 1)
         IN  IF j <= Len(s) /\ s[j] = "}" THEN Ok(<<>>, j + 1)
             ELSE parse_pairs(s, j, <<>>)

\* The items of an array, from its first item.
RECURSIVE parse_items(_, _, _)
parse_items(s, i, acc) ==
    LET o == parse_object(s, i)
        e == skip_ws(s, o.pos)
    IN  IF ~o.ok THEN Fail
        ELSE IF e > Len(s) THEN Fail
        ELSE IF s[e] = "]" THEN Ok(Append(acc, o.val), e + 1)
        ELSE IF s[e] = ","
             THEN parse_items(s, skip_ws(s, e + 1), Append(acc, o.val))
        ELSE Fail

parse_array(s, i) ==
    IF i > Len(s) \/ s[i] # "[" THEN Fail
    ELSE LET j == skip_ws(s, i + 1)
         IN  IF j <= Len(s) /\ s[j] = "]" THEN Ok(<<>>, j + 1)
             ELSE parse_items(s, j, <<>>)

\* json.load(f) of a file holding s: one array, then nothing but whitespace
\* ("Extra data" otherwise).  ok = FALSE stands for the exception.
json_load(s) ==
    LET r == parse_array(s, skip_ws(s, 1))
    IN  IF r.ok /\ skip_ws(s, r.pos) = Len(s) + 1 THEN r ELSE Fail

\* f.seek(0) and a write of new over a file holding old, with no truncate.
rewrite(old, new) == new \o SubSeq(old, Len(new) + 1, Len(old))

-----------------------------------------------------------------------------
(* More string operations.                                                 *)

UPPER == <<"A", "B", "C", "D", "E", "F", "G", "H", "I", "J", "K", "L", "M",
           "N", "O", "P", "Q", "R", "S", "T", "U", "V", "W", "X", "Y", "Z">>
LOWER == <<"a", "b", "c", "d", "e", "f", "g", "h", "i", "j", "k", "l", "m",
           "n", "o", "p", "q", "r", "s", "t", "u", "v", "w", "x", "y", "z">>

\* s.lower()
lower(s) ==
    [i \in 1..Len(s) |->
        IF \E k \in 1..Len(UPPER) : UPPER[k] = s[i]
        THEN LOWER[CHOOSE k \in 1..Len(UPPER) : UPPER[k] = s[i]]
        ELSE s[i]]

RECURSIVE lstrip(_)
lstrip(s) ==
    IF s # <<>> /\ Head(s) \in Whitespace THEN lstrip(Tail(s)) ELSE s

RECURSIVE rstrip(_)
rstrip(s) ==
    IF s # <<>> /\ s[Len(s)] \in Whitespace
    THEN rstrip(SubSeq(s, 1, Len(s) - 1)) ELSE s

\* s.strip()
strip(s) == rstrip(lstrip(s))

-----------------------------------------------------------------------------
(* The fixed texts of main.py.                                             *)

ASR_ERROR_PREFIX == <<"[", "A", "S", "R", " ", "e", "r", "r", "o", "r">>
ASR_NOT_CONFIGURED_PREFIX ==
    <<"[", "A", "S", "R", " ", "n", "o", "t", " ",
      "c", "o", "n", "f", "i", "g", "u", "r", "e", "d">>
ASR_NOT_CONFIGURED ==
    ASR_NOT_CONFIGURED_PREFIX \o
    <<" ", "-", " ", "s", "e", "t", " ",
      "O", "P", "E", "N", "A", "I", "_", "A", "P", "I", "_", "K", "E", "Y", "]">>
LLM_NOT_CONFIGURED ==
    <<"[", "L", "L", "M", " ", "n", "o", "t", " ",
      "c", "o", "n", "f", "i", "g", "u", "r", "e", "d",
      " ", "-", " ", "s", "e", "t", " ",
      "O", "P", "E", "N", "A", "I", "_", "A", "P", "I", "_", "K", "E", "Y", "]">>
LLM_UNAVAILABLE ==
    <<"[", "L", "L", "M", " ", "u", "n", "a", "v", "a", "i", "l", "a", "b",
      "l", "e", " ", "d", "u", "e", " ", "t", "o", " ", "A", "S", "R", " ",
      "e", "r", "r", "o", "r", " ", "o", "r", " ", "m", "i", "s", "s", "i",
      "n", "g", " ", "c", "o", "n", "f", "i", "g", "]">>

\* f"[ASR error: {str(e)}]"
asr_error(msg) == ASR_ERROR_PREFIX \o <<":", " ">> \o msg \o <<"]">>
\* f"[LLM error: {str(e)}]"
llm_error(msg) ==
    <<"[", "L", "L", "M", " ", "e", "r", "r", "o", "r", ":", " ">> \o msg \o <<"]">>

-----------------------------------------------------------------------------
(* Requests.                                                               *)

NoBody == [transcript |-> <<>>, response_text |-> <<>>, tts_audio_url |-> None,
           status |-> "", detail |-> ""]

Idle ==
    [kind |-> "idle", worker |-> 0, pc |-> "idle",
     \* the request's inputs
     language |-> None, ext |-> "", form |-> <<>>, entry |-> <<>>,
     \* the handler's locals
     tmp_name |-> <<>>, tmp |-> "none", lang |-> <<>>, transcript |-> <<>>, llm_response |-> <<>>,
     chosen_voice |-> "", out_filename |-> <<>>, tts_ok |-> FALSE, data |-> <<>>,
     \* history: the calls of the adapters, their arguments and returns
     asr_calls |-> 0, llm_calls |-> 0, tts_calls |-> 0,
     asr_provider_ok |-> FALSE, llm_arg |-> <<>>, llm_ret |-> <<>>,
     tts_args |-> <<>>, tts_ret |-> FALSE,
     \* the response: 0 while there is none
     code |-> 0, body |-> NoBody]

InFlight(r) == req[r].kind # "idle" /\ req[r].pc # "done"

\* The request holds the loop of its worker: it was resumed and has neither
\* reached an await nor returned.
HoldsLoop(r) == running[req[r].worker] = r

LoopFree(r) == running[req[r].worker] = 0

\* The awaits, had contact_submit one between its read and its write.
AwaitPointsWithContactAwait == {"await_read", "loaded"}

\* The places where a handler awaits: main.py:130 is the only one.
AwaitPoints == {"await_read"}

\* The loop of the request's worker after the step that left it as q.
release(r, q) ==
    [running EXCEPT ![q.worker] =
        IF q.pc = "done" \/ q.pc \in AwaitPoints THEN 0 ELSE r]

-----------------------------------------------------------------------------
(* voice_agent, main.py:125-152.                                           *)

\* The test of line 136 that skips the empty check.
llm_wanted_no_empty_check(transcript) ==
    /\ ~startswith(transcript, ASR_ERROR_PREFIX)
    /\ ~startswith(transcript, ASR_NOT_CONFIGURED_PREFIX)

\* The test of line 136 that asks the LLM whatever the transcript is.
llm_wanted_always(transcript) == TRUE

\* Line 136: the transcript is passed on to the LLM.
llm_wanted(transcript) ==
    /\ transcript # <<>>
    /\ ~startswith(transcript, ASR_ERROR_PREFIX)
    /\ ~startswith(transcript, ASR_NOT_CONFIGURED_PREFIX)

\* Line 132: (language or "en").lower()
normalize(language) ==
    lower(IF language.null \/ language.s = <<>> THEN <<"e", "n">> ELSE language.s)

\* Lines 127-128: f"/tmp/{uuid.uuid4().hex}{suffix}", the suffix being the
\* extension of the upload's name, or ".wav".
temp_name(r, ext) == <<"/tmp/", ToString(r), IF ext = "" THEN ".wav" ELSE ext>>

\* Line 142: f"generated_{uuid.uuid4().hex}.mp3"; the request's id stands for
\* the fresh token.
generated_name(r) == <<"generated_", ToString(r), ".mp3">>

\* Line 143: os.path.join("static", out_filename)
static_path(name) == <<"static", "/">> \o name

\* Line 145 with the test dropped.
tts_url_always(ok, name) == Str(<<"/static/">> \o name)

\* Line 145: f"/static/{out_filename}" if tts_ok else None
tts_url(ok, name) == IF ok THEN Str(<<"/static/">> \o name) ELSE None

\* The handler from the statement q.pc names to its next blocking call or its
\* return.  rm tells whether os.remove(tmp_name) succeeds.
RECURSIVE run(_, _, _)
run(r, q, rm) ==
    CASE q.pc = "asr" ->
            \* line 134, run_asr_local lines 77-79
            IF OPENAI_API_KEY = ""
            THEN run(r, [q EXCEPT !.asr_calls = @ + 1,
                                  !.transcript = ASR_NOT_CONFIGURED,
                                  !.pc = "llm"], rm)
            ELSE [q EXCEPT !.asr_calls = @ + 1, !.pc = "asr_wait"]
      [] q.pc = "llm" ->
            \* lines 136-139, run_llm_local lines 87-89
            IF llm_wanted(q.transcript)
            THEN IF OPENAI_API_KEY = ""
                 THEN run(r, [q EXCEPT !.llm_calls = @ + 1,
                                       !.llm_arg = q.transcript,
                                       !.llm_ret = LLM_NOT_CONFIGURED,
                                       !.llm_response = LLM_NOT_CONFIGURED,
                                       !.pc = "tts"], rm)
                 ELSE [q EXCEPT !.llm_calls = @ + 1,
                                !.llm_arg = q.transcript,
                                !.pc = "llm_wait"]
            ELSE run(r, [q EXCEPT !.llm_response = LLM_UNAVAILABLE,
                                  !.pc = "tts"], rm)
      [] q.pc = "tts" ->
            \* lines 141-144, run_tts_elevenlabs lines 103-105
            LET voice == choose_voice_for_language(q.lang)
                name == generated_name(r)
                q1 == [q EXCEPT !.chosen_voice = voice,
                                !.out_filename = name,
                                !.tts_calls = @ + 1,
                                !.tts_args = <<q.llm_response, voice,
                                               static_path(name)>>]
            IN  IF ELEVENLABS_API_KEY = ""
                THEN run(r, [q1 EXCEPT !.tts_ok = FALSE, !.tts_ret = FALSE,
                                       !.pc = "finish"], rm)
                ELSE [q1 EXCEPT !.pc = "tts_wait"]
      [] q.pc = "finish" ->
            \* lines 145-152
            [q EXCEPT !.tmp = IF rm THEN "removed" ELSE "left",
                      !.code = 200,
                      !.body = [NoBody EXCEPT
                                   !.transcript = q.transcript,
                                   !.response_text = q.llm_response,
                                   !.tts_audio_url =
                                        tts_url(q.tts_ok, q.out_filename)],
                      !.pc = "done"]

\* POST /voice-agent reaches worker w: the coroutine is scheduled.
ArriveVoice(r, w, language, ext) ==
    /\ req[r].kind = "idle"
    /\ req' = [req EXCEPT ![r] = [Idle EXCEPT !.kind = "voice", !.worker = w,
                                               !.pc = "start",
                                               !.language = language,
                                               !.ext = ext]]
    /\ UNCHANGED <<globals, file, static_files, running, submitted, selected>>

\* Lines 127-130 up to `await audio.read()`: the temporary file is opened
\* and the coroutine waits for the upload, leaving the loop to others.
VoiceBegin(r) ==
    /\ req[r].kind = "voice" /\ req[r].pc = "start"
    /\ LoopFree(r)
    /\ req' = [req EXCEPT ![r].tmp_name = temp_name(r, req[r].ext),
                          ![r].tmp = "open", ![r].pc = "await_read"]
    /\ UNCHANGED <<globals, file, static_files, running, submitted, selected>>

\* The upload is read: lines 130-134 and on, to the first blocking call.
VoiceResume(r, rm) ==
    /\ req[r].kind = "voice" /\ req[r].pc = "await_read"
    /\ LoopFree(r)
    /\ LET q == run(r, [req[r] EXCEPT !.tmp = "written",
                                      !.lang = normalize(req[r].language),
                                      !.pc = "asr"], rm)
       IN  /\ req' = [req EXCEPT ![r] = q]
           /\ running' = release(r, q)
    /\ UNCHANGED <<globals, file, static_files, submitted, selected>>

\* openai.Audio.transcribe returns or raises (lines 80-85), and the handler
\* goes on.  out is [ok, text]: the transcript, or the exception's message.
AsrReturn(r, out, rm) ==
    /\ req[r].kind = "voice" /\ req[r].pc = "asr_wait"
    /\ LET t == IF out.ok THEN out.text ELSE asr_error(out.text)
           q == run(r, [req[r] EXCEPT !.transcript = t,
                                      !.asr_provider_ok = out.ok,
                                      !.pc = "llm"], rm)
       IN  /\ req' = [req EXCEPT ![r] = q]
           /\ running' = release(r, q)
    /\ UNCHANGED <<globals, file, static_files, submitted, selected>>

\* openai.ChatCompletion.create returns or raises (lines 98-101).
LlmReturn(r, out, rm) ==
    /\ req[r].kind = "voice" /\ req[r].pc = "llm_wait"
    /\ LET t == IF out.ok THEN strip(out.text) ELSE llm_error(out.text)
           q == run(r, [req[r] EXCEPT !.llm_ret = t,
                                      !.llm_response = t,
                                      !.pc = "tts"], rm)
       IN  /\ req' = [req EXCEPT ![r] = q]
           /\ running' = release(r, q)
    /\ UNCHANGED <<globals, file, static_files, submitted, selected>>

TtsOutcomes == {"written", "status", "post_raises", "write_raises"}

\* requests.post returns or raises and the body is written (lines 113-123):
\* status 200 and the whole body written; another status; an exception
\* before the file is opened; an exception after it (a partial file stays).
TtsReturn(r, out, rm) ==
    /\ req[r].kind = "voice" /\ req[r].pc = "tts_wait"
    /\ LET ok == (out = "written")
           path == req[r].tts_args[3]
           q == run(r, [req[r] EXCEPT !.tts_ok = ok, !.tts_ret = ok,
                                      !.pc = "finish"], rm)
       IN  /\ req' = [req EXCEPT ![r] = q]
           /\ running' = release(r, q)
           /\ static_files' =
                 IF out = "written" THEN (path :> "full") @@ static_files
                 ELSE IF out = "write_raises"
                      THEN (path :> "partial") @@ static_files
                 ELSE static_files
    /\ UNCHANGED <<globals, file, submitted, selected>>

-----------------------------------------------------------------------------
(* contact_submit, main.py:154-165.                                        *)

\* Line 156 with the absent fields left out of the record.
new_entry_sparse(name, email, plan, message) ==
    LET all == << <<<<"n", "a", "m", "e">>, Str(name)>>,
                  <<<<"e", "m", "a", "i", "l">>, Str(email)>>,
                  <<<<"p", "l", "a", "n">>, plan>>,
                  <<<<"m", "e", "s", "s", "a", "g", "e">>, message>> >>
    IN  SelectSeq(all, LAMBDA p : ~p[2].null)

\* Line 156: the record; plan and message are None when the form omits them.
new_entry(name, email, plan, message) ==
    << <<<<"n", "a", "m", "e">>, Str(name)>>,
       <<<<"e", "m", "a", "i", "l">>, Str(email)>>,
       <<<<"p", "l", "a", "n">>, plan>>,
       <<<<"m", "e", "s", "s", "a", "g", "e">>, message>> >>

\* Line 160 replaced by data = [entry].
appended_alone(data, entry) == <<entry>>

\* Line 160: data.append(entry)
appended(data, entry) == Append(data, entry)

\* POST /contact reaches worker w.
ArriveContact(r, w, in) ==
    /\ req[r].kind = "idle"
    /\ req' = [req EXCEPT ![r] =
                  [Idle EXCEPT !.kind = "contact", !.worker = w, !.pc = "start",
                               !.form = in,
                               !.entry = new_entry(in.name, in.email,
                                                   in.plan, in.message)]]
    /\ UNCHANGED <<globals, file, static_files, running, submitted, selected>>

\* Lines 158-159: the file is opened and read.  A content json.load rejects
\* ends the request with 500 (lines 164-165).  The handler has no await, so
\* it keeps the loop until it returns.
ContactLoad(r) ==
    /\ req[r].kind = "contact" /\ req[r].pc = "start"
    /\ LoopFree(r)
    /\ LET got == json_load(file)
           q == IF got.ok
                THEN [req[r] EXCEPT !.data = got.val, !.pc = "loaded"]
                ELSE [req[r] EXCEPT !.code = 500,
                                    !.body = [NoBody EXCEPT !.detail = "json.load"],
                                    !.pc = "done"]
       IN  /\ req' = [req EXCEPT ![r] = q]
           /\ running' = release(r, q)
    /\ UNCHANGED <<globals, file, static_files, submitted, selected>>

\* Lines 160-163: append, seek(0), dump, close, and the response.
ContactDump(r) ==
    /\ req[r].kind = "contact" /\ req[r].pc = "loaded"
    /\ HoldsLoop(r) \/ LoopFree(r)
    /\ LET data == appended(req[r].data, req[r].entry)
           q == [req[r] EXCEPT !.data = data, !.code = 200,
                               !.body = [NoBody EXCEPT
                                            !.status = "ok",
                                            !.detail = "Submission received"],
                               !.pc = "done"]
       IN  /\ file' = rewrite(file, json_dump(data))
           /\ req' = [req EXCEPT ![r] = q]
           /\ running' = release(r, q)
    /\ submitted' = Append(submitted, req[r].entry)
    /\ UNCHANGED <<globals, static_files, selected>>

-----------------------------------------------------------------------------
(* Start-up: the module-level statements of main.py.                       *)

NoCall == [called |-> FALSE, lang |-> <<>>, voice |-> ""]

\* The values the import of main.py leaves behind, for the environment env
\* and the request ids ids, when submissions.json did not exist.
StartUp(env, ids, workers) ==
    /\ environ = env
    /\ OPENAI_API_KEY = getenv(env, ENV_OPENAI_API_KEY, "")
    /\ ELEVENLABS_API_KEY = getenv(env, ENV_ELEVENLABS_API_KEY, "")
    /\ ELEVENLABS_VOICE_DEFAULT = getenv(env, ENV_ELEVENLABS_VOICE, "Bella")
    /\ VOICE_MAP = _load_voice_map(env)
    /\ file = <<"[", "]">>
    /\ static_files = <<>>
    /\ req = [r \in ids |-> Idle]
    /\ running = [w \in workers |-> 0]
    /\ submitted = <<>>
    /\ selected = NoCall

\* The environments over the names of values, values[n] being the values
\* the name n may have; a name may also be unset.
Environments(values) ==
    UNION { {f \in [S -> UNION {values[n] : n \in S}] :
                \A n \in S : f[n] \in values[n]} : S \in SUBSET DOMAIN values }

-----------------------------------------------------------------------------
(* Voice selection on its own: every language tag up to MaxTagLen over     *)
(* TagAlphabet, against the voice maps of SelEnvironments.                 *)

MaxTagLen == 3
TagAlphabet == {"a", "-", "_"}

RECURSIVE SeqsUpTo(_, _)
SeqsUpTo(alphabet, n) ==
    IF n = 0 THEN {<<>>}
    ELSE LET shorter == SeqsUpTo(alphabet, n - 1)
         IN  shorter \cup {Append(s, c) : s \in shorter, c \in alphabet}

LanguageTags == SeqsUpTo(TagAlphabet, MaxTagLen)

SelEnvNames ==
    { VOICE_PREFIX,                                  \* VOICE_      -> ""
      VOICE_PREFIX \o <<"a">>,                       \* VOICE_a     -> "a"
      VOICE_PREFIX \o <<"a", "-", "a">>,             \* VOICE_a-a   -> "a-a"
      VOICE_PREFIX \o <<"a", "_", "a">>,             \* VOICE_a_a   -> "a_a"
      <<"V", "O", "I", "C", "E", "a">>,              \* VOICEa: no prefix
      ENV_ELEVENLABS_VOICE }

SelEnvValues ==
  [n \in SelEnvNames |->
    IF n = VOICE_PREFIX THEN {"", "Nobody"}
    ELSE IF n = VOICE_PREFIX \o <<"a">> THEN {"", "Adam"}
    ELSE IF n = VOICE_PREFIX \o <<"a", "-", "a">> THEN {"", "Antoni"}
    ELSE IF n = VOICE_PREFIX \o <<"a", "_", "a">> THEN {"", "Arnold"}
    ELSE IF n = ENV_ELEVENLABS_VOICE THEN {"", "Rachel"}
    ELSE {"Stray"}]

SelEnvironments == Environments(SelEnvValues)

InitSel == \E env \in SelEnvironments : StartUp(env, {}, {})

\* A direct call choose_voice_for_language(lang).
ChooseVoice(lang) ==
    /\ selected' = [called |-> TRUE, lang |-> lang,
                    voice |-> choose_voice_for_language(lang)]
    /\ UNCHANGED <<globals, file, static_files, req, running, submitted>>

NextSel == \E lang \in LanguageTags : ChooseVoice(lang)

SpecSel == InitSel /\ [][NextSel]_vars

-----------------------------------------------------------------------------
(* The contact store under calls made one after another: MaxCalls calls,   *)
(* each arriving when the one before it has been answered.                 *)

MaxCalls == 3

ContactInputs ==
    { [name |-> <<"A", "n", "a">>, email |-> <<"a", "@", "x", ".", "c", "o", "m">>,
       plan |-> None, message |-> None],
      [name |-> <<"B", "o">>, email |-> <<"b", "@", "y">>,
       plan |-> Str(<<"p", "r", "o">>),
       message |-> Str(<<"\"", "h", "i", "\"", "\n", "\\">>)],
      [name |-> <<"C">>, email |-> <<"c">>,
       plan |-> None, message |-> Str(<<>>)] }

NoneInFlight == \A r \in DOMAIN req : ~InFlight(r)

\* The request ids are handed out in order.
NextId(r) == \A s \in DOMAIN req : s < r <=> req[s].kind # "idle"

InitStore == StartUp(<<>>, 1..MaxCalls, {1})

NextStore ==
    \/ \E r \in DOMAIN req, in \in ContactInputs :
          NoneInFlight /\ NextId(r) /\ ArriveContact(r, 1, in)
    \/ \E r \in DOMAIN req : ContactLoad(r)
    \/ \E r \in DOMAIN req : ContactDump(r)

SpecStore == InitStore /\ [][NextStore]_vars

-----------------------------------------------------------------------------
(* One voice-agent request, over the credentials, languages and provider   *)
(* outcomes below.                                                         *)

AgentEnvNames ==
    { ENV_OPENAI_API_KEY, ENV_ELEVENLABS_API_KEY,
      VOICE_PREFIX \o <<"e", "n">> }

AgentEnvValues ==
  [n \in AgentEnvNames |->
    IF n = ENV_OPENAI_API_KEY THEN {"", "sk-test"}
    ELSE IF n = ENV_ELEVENLABS_API_KEY THEN {"xi-test"}
    ELSE {"Adam"}]

AgentEnvironments == Environments(AgentEnvValues)

Languages ==
    { None, Str(<<>>), Str(<<"E", "N">>), Str(<<"e", "n", "-", "U", "S">>),
      Str(<<"f", "r">>) }

Extensions == {"", ".ogg"}

\* What the transcription call gives: a transcript, or an exception.
AsrOutcomes ==
    { [ok |-> TRUE, text |-> <<>>],
      [ok |-> TRUE, text |-> <<"h", "i">>],
      [ok |-> TRUE, text |-> <<"[", "A", "S", "R">>],
      [ok |-> TRUE, text |-> ASR_ERROR_PREFIX],
      [ok |-> TRUE, text |-> ASR_NOT_CONFIGURED_PREFIX \o <<"!">>],
      [ok |-> FALSE, text |-> <<"t", "i", "m", "e", "o", "u", "t">>] }

\* What the chat completion gives: a content, or an exception.
LlmOutcomes ==
    { [ok |-> TRUE, text |-> <<" ", "o", "k", " ">>],
      [ok |-> TRUE, text |-> <<>>],
      [ok |-> FALSE, text |-> <<"t", "i", "m", "e", "o", "u", "t">>] }

InitAgent == \E env \in AgentEnvironments : StartUp(env, {1}, {1})

NextAgent ==
    \/ \E r \in DOMAIN req, l \in Languages, x \in Extensions :
          ArriveVoice(r, 1, l, x)
    \/ \E r \in DOMAIN req : VoiceBegin(r)
    \/ \E r \in DOMAIN req, rm \in BOOLEAN : VoiceResume(r, rm)
    \/ \E r \in DOMAIN req, out \in AsrOutcomes, rm \in BOOLEAN :
          AsrReturn(r, out, rm)
    \/ \E r \in DOMAIN req, out \in LlmOutcomes, rm \in BOOLEAN :
          LlmReturn(r, out, rm)
    \/ \E r \in DOMAIN req, out \in TtsOutcomes, rm \in BOOLEAN :
          TtsReturn(r, out, rm)

SpecAgent == InitAgent /\ [][NextAgent]_vars

-----------------------------------------------------------------------------
(* The server: NumRequests requests of either kind, in flight together,    *)
(* each handled by one of the worker processes.                            *)

NumRequests == 2

NumWorkers == 2

Workers == 1..NumWorkers

ServerEnvironment ==
    (ENV_OPENAI_API_KEY :> "sk-test") @@ (ENV_ELEVENLABS_API_KEY :> "xi-test")

ServerContactInputs ==
    { in \in ContactInputs : in.name \in {<<"A", "n", "a">>, <<"C">>} }

ServerAsrOutcomes ==
    { out \in AsrOutcomes : out.text \in {<<"h", "i">>, <<"t", "i", "m", "e", "o", "u", "t">>} }

ServerLlmOutcomes == { out \in LlmOutcomes : out.text = <<" ", "o", "k", " ">> }

ServerTtsOutcomes == {"written", "status"}

InitServer == StartUp(ServerEnvironment, 1..NumRequests, Workers)

\* A step of the handler of request r: the steps of NextServer that are r's.
Handle(r) ==
    \/ VoiceBegin(r)
    \/ VoiceResume(r, TRUE)
    \/ \E out \in ServerAsrOutcomes : AsrReturn(r, out, TRUE)
    \/ \E out \in ServerLlmOutcomes : LlmReturn(r, out, TRUE)
    \/ \E out \in ServerTtsOutcomes : TtsReturn(r, out, TRUE)
    \/ ContactLoad(r)
    \/ ContactDump(r)

NextServer ==
    \/ \E r \in DOMAIN req, w \in Workers :
          NextId(r) /\ ArriveVoice(r, w, Str(<<"e", "n">>), "")
    \/ \E r \in DOMAIN req, w \in Workers, in \in ServerContactInputs :
          NextId(r) /\ ArriveContact(r, w, in)
    \/ \E r \in DOMAIN req : VoiceBegin(r)
    \/ \E r \in DOMAIN req : VoiceResume(r, TRUE)
    \/ \E r \in DOMAIN req, out \in ServerAsrOutcomes : AsrReturn(r, out, TRUE)
    \/ \E r \in DOMAIN req, out \in ServerLlmOutcomes : LlmReturn(r, out, TRUE)
    \/ \E r \in DOMAIN req, out \in ServerTtsOutcomes : TtsReturn(r, out, TRUE)
    \/ \E r \in DOMAIN req : ContactLoad(r)
    \/ \E r \in DOMAIN req : ContactDump(r)

SpecServer == InitServer /\ [][NextServer]_vars

-----------------------------------------------------------------------------
(* The properties.                                                         *)

VoiceRequests == {r \in DOMAIN req : req[r].kind = "voice"}
VoiceDone == {r \in VoiceRequests : req[r].pc = "done"}
ContactsOk ==
    {r \in DOMAIN req : req[r].kind = "contact" /\ req[r].pc = "done"
                        /\ req[r].code = 200}

\* The transcript is one of the texts that stand for a failed transcription.
HasAsrSentinelPrefix(t) ==
    \/ startswith(t, <<"[", "A", "S", "R", " ", "e", "r", "r", "o", "r">>)
    \/ startswith(t, <<"[", "A", "S", "R", " ", "n", "o", "t", " ", "c", "o",
                       "n", "f", "i", "g", "u", "r", "e", "d">>)

\* C1, as claimed: whenever the transcription call succeeded with a non-empty
\* transcript, whatever its characters, and the OpenAI key is set, the LLM
\* adapter was called with that transcript and response_text is the text it
\* returned.
C1_LlmAnswersEverySuccessfulTranscript ==
    \A r \in VoiceDone :
        (req[r].asr_provider_ok /\ req[r].transcript # <<>> /\ OPENAI_API_KEY # "")
        => /\ req[r].llm_calls = 1
           /\ req[r].llm_arg = req[r].transcript
           /\ req[r].body.response_text = req[r].llm_ret

\* C2, as claimed: a finished voice-agent request has called each of the
\* three adapters exactly once, whatever the earlier steps gave.
C2_EveryAdapterOnce ==
    \A r \in VoiceDone :
        req[r].asr_calls = 1 /\ req[r].llm_calls = 1 /\ req[r].tts_calls = 1

\* C2, amended: no adapter is ever called twice by one request; a finished
\* request has called the ASR and the TTS adapter exactly once each, and the
\* LLM adapter exactly once when the transcript is non-empty and carries no
\* ASR sentinel prefix, and not at all otherwise.
C2_AdaptersAtMostOnceLlmOnlyOnTranscript ==
    \A r \in VoiceRequests :
        /\ req[r].asr_calls <= 1 /\ req[r].llm_calls <= 1 /\ req[r].tts_calls <= 1
        /\ req[r].pc = "done" =>
              /\ req[r].asr_calls = 1
              /\ req[r].tts_calls = 1
              /\ req[r].llm_calls =
                    IF req[r].transcript # <<>>
                       /\ ~HasAsrSentinelPrefix(req[r].transcript)
                    THEN 1 ELSE 0

\* C2's case: a request finished after a failed transcription, with the ASR
\* and TTS adapters called and the LLM adapter skipped.
C2_Witness ==
    \E r \in VoiceDone :
        /\ OPENAI_API_KEY # "" /\ ~req[r].asr_provider_ok
        /\ req[r].asr_calls = 1 /\ req[r].llm_calls = 0 /\ req[r].tts_calls = 1

\* C8: with no OpenAI key a voice-agent request never waits on the provider
\* and ends with status 200, transcript "[ASR not configured - set
\* OPENAI_API_KEY]" and response_text "[LLM unavailable due to ASR error or
\* missing config]"; and whenever the transcript is empty or begins with
\* "[ASR error" or "[ASR not configured", the LLM adapter is not called and
\* response_text is that same fixed text.
C8_AsrFailureSkipsLlm ==
    \A r \in VoiceRequests :
        /\ OPENAI_API_KEY = "" => req[r].pc \notin {"asr_wait", "llm_wait"}
        /\ req[r].pc = "done" =>
              /\ req[r].code = 200
              /\ OPENAI_API_KEY = "" =>
                    /\ req[r].body.transcript = ASR_NOT_CONFIGURED
                    /\ req[r].body.response_text = LLM_UNAVAILABLE
              /\ (req[r].body.transcript = <<>>
                  \/ HasAsrSentinelPrefix(req[r].body.transcript)) =>
                    /\ req[r].llm_calls = 0
                    /\ req[r].body.response_text = LLM_UNAVAILABLE

\* C8's case: a request finished without an OpenAI key.
C8_Witness ==
    \E r \in VoiceDone :
        /\ OPENAI_API_KEY = ""
        /\ req[r].body.transcript = ASR_NOT_CONFIGURED
        /\ req[r].llm_calls = 0

\* C9: in the result of a voice-agent request tts_audio_url is null exactly
\* when the TTS adapter returned False, which it does without an ElevenLabs
\* key; when it returned True the URL is "/static/" followed by the file
\* name whose path under static/ the adapter was given, and that file was
\* written whole.
C9_UrlIffTtsSucceeded ==
    \A r \in VoiceDone :
        LET url == req[r].body.tts_audio_url
            path == req[r].tts_args[3]
            name == SubSeq(path, 3, Len(path))
        IN  /\ url.null <=> ~req[r].tts_ret
            /\ ELEVENLABS_API_KEY = "" => url.null
            /\ req[r].tts_ret =>
                  /\ SubSeq(path, 1, 2) = <<"static", "/">>
                  /\ url.s = <<"/static/">> \o name
                  /\ path \in DOMAIN static_files
                  /\ static_files[path] = "full"

\* C9's cases: a result with a URL, after the adapter returned True.
C9_Witness ==
    \E r \in VoiceDone : req[r].tts_ret /\ ~req[r].body.tts_audio_url.null

\* The record the store is to hold for a submitted form.
StoredRecord(form) ==
    << <<<<"n", "a", "m", "e">>, [null |-> FALSE, s |-> form.name]>>,
       <<<<"e", "m", "a", "i", "l">>, [null |-> FALSE, s |-> form.email]>>,
       <<<<"p", "l", "a", "n">>, form.plan>>,
       <<<<"m", "e", "s", "s", "a", "g", "e">>, form.message>> >>

\* The forms of the calls answered with ok, in the order of the calls.
FormsOk == [i \in 1..Cardinality(ContactsOk) |-> StoredRecord(req[i].form)]

\* C5: under calls made one after another from the empty store, the array
\* in the file is the records of the n calls answered so far, in the order
\* of the calls, each with its name and email and with null for an omitted
\* plan or message.
C5_StoredIsTheSubmittedRecordsInOrder ==
    /\ json_load(file).ok
    /\ json_load(file).val = FormsOk

\* C5's case: two calls answered, the first one Ana's with no plan and no
\* message.
C5_Witness ==
    /\ Cardinality(ContactsOk) = 2
    /\ Len(json_load(file).val) = 2
    /\ json_load(file).val[1] =
          << <<<<"n", "a", "m", "e">>, Str(<<"A", "n", "a">>)>>,
             <<<<"e", "m", "a", "i", "l">>,
               Str(<<"a", "@", "x", ".", "c", "o", "m">>)>>,
             <<<<"p", "l", "a", "n">>, None>>,
             <<<<"m", "e", "s", "s", "a", "g", "e">>, None>> >>

\* C10: under calls made one after another from the file "[]", the file is
\* byte for byte the indented dump of the array of the calls answered so
\* far, so json.load accepts it; and the text a handler is about to write
\* from offset 0 is strictly longer than the file it writes over.
C10_FileIsExactlyTheDump ==
    /\ file = json_dump(submitted)
    /\ json_load(file).ok
    /\ \A r \in DOMAIN req :
          req[r].pc = "loaded" =>
             Len(json_dump(Append(req[r].data, req[r].entry))) > Len(file)

\* C10's case: a handler has read a file that holds records and is about to
\* write over it.
C10_Witness ==
    \E r \in DOMAIN req : req[r].pc = "loaded" /\ Len(req[r].data) >= 2

\* C3: when every call answered with ok ran on the same worker process, the
\* file holds the records of all of them in the order of their answers: an
\* update is lost only between handlers of different worker processes.
C3_LostUpdateNeedsTwoWorkers ==
    (\A r, s \in ContactsOk : req[r].worker = req[s].worker)
    => /\ json_load(file).ok
       /\ json_load(file).val = submitted

\* C3's case, the lost update: two calls were answered with ok, no request
\* is in flight, and the array in the file holds one record only.
C3_Witness ==
    /\ Cardinality(ContactsOk) = 2
    /\ \A r \in DOMAIN req : ~InFlight(r)
    /\ json_load(file).ok
    /\ Len(json_load(file).val) = 1

\* C4, as claimed: while a voice-agent request waits for a provider, every
\* other request in flight can take its next step.
C4_OthersProgressDuringExternalCall ==
    \A r \in VoiceRequests, s \in DOMAIN req :
        (/\ req[r].pc \in {"asr_wait", "llm_wait", "tts_wait"}
         /\ s # r
         /\ InFlight(s))
        => ENABLED Handle(s)

\* C6, as claimed: for a tag xx-YY whose part before the separator is a key
\* of the voice map, the selection returns the voice of xx.
C6_PrefixVoiceForEveryXxYy ==
    (/\ selected.called
     /\ contains(selected.lang, "-")
     /\ split_first(selected.lang, "-") \in DOMAIN VOICE_MAP)
    => selected.voice = VOICE_MAP[split_first(selected.lang, "-")]

\* C6, amended: for a tag that holds a separator, whose part before the
\* first separator is a key of the voice map and which is not itself a key,
\* the selection returns the voice of that part.
C6_PrefixVoiceUnlessExactKey ==
    (/\ selected.called
     /\ contains(selected.lang, "-")
     /\ split_first(selected.lang, "-") \in DOMAIN VOICE_MAP
     /\ selected.lang \notin DOMAIN VOICE_MAP)
    => selected.voice = VOICE_MAP[split_first(selected.lang, "-")]

\* C6's case: a tag a-YY that is no key, answered with the voice of a.
C6_Witness ==
    /\ selected.called
    /\ Len(selected.lang) = 3 /\ selected.lang[1] = "a" /\ selected.lang[2] = "-"
    /\ selected.lang \notin DOMAIN VOICE_MAP
    /\ <<"a">> \in DOMAIN VOICE_MAP
    /\ selected.voice = "Adam"
    /\ ELEVENLABS_VOICE_DEFAULT # "Adam"

\* C7, as claimed: for every tag equal to a key of a voice map the loader
\* built, the selection returns the voice of that key.
C7_ExactVoiceForEveryKey ==
    (selected.called /\ selected.lang \in DOMAIN VOICE_MAP)
    => selected.voice = VOICE_MAP[selected.lang]

\* C7, amended: for every non-empty tag equal to a key of a voice map the
\* loader built, the selection returns the voice of that key, also when the
\* part before the separator is a key.
C7_ExactVoiceForEveryNonEmptyKey ==
    (selected.called /\ selected.lang # <<>> /\ selected.lang \in DOMAIN VOICE_MAP)
    => selected.voice = VOICE_MAP[selected.lang]

\* C7's case: the tag a-a with both a-a and a in the voice map.
C7_Witness ==
    /\ selected.called
    /\ selected.lang = <<"a", "-", "a">>
    /\ selected.lang \in DOMAIN VOICE_MAP
    /\ <<"a">> \in DOMAIN VOICE_MAP
    /\ selected.voice = "Antoni"

=============================================================================
